---- MODULE Spec2Model ----
(***************************************************************************)
(* A model of liblipo: class LiPo of src/lipo.cpp and src/lipo/lipo.hpp.   *)
(*                                                                         *)
(* The class samples LIPO_ADCCHANNELS ADC channels, accumulates them over  *)
(* a gate time, and converts the averages to cumulative cell voltages.     *)
(*                                                                         *)
(* uint32_t values are kept with their width.  The model checker's         *)
(* integers are 32 bit signed, so a uint32_t is written as the pair        *)
(* <<high half, low half>> of its two 16 bit halves, and the operators     *)
(* U32Add, U32Sub, U32Mul, U32Div, U32Shl, U32Shr compute on such pairs    *)
(* modulo 2^32 exactly as the C++ operators do.                            *)
(***************************************************************************)
EXTENDS Integers, Sequences, FiniteSets, TLC

(***************************************************************************)
(* uint32_t arithmetic                                                     *)
(***************************************************************************)

\* 2^16, the weight of the high half of a uint32_t.
B16 == 2^16

\* The uint32_t with the value n, for 0 <= n < 2^31.
U(n) == <<n \div B16, n % B16>>

\* The value of a uint32_t below 2^31 as a number.
N(a) == a[1] * B16 + a[2]

\* Whether a uint32_t is below 2^31, so that N gives its value.
Small(a) == a[1] < 2^15

\* The residue of a uint32_t modulo 2^32 that lies in -2^31 .. 2^31 - 1.
Signed(a) == IF Small(a) THEN N(a) ELSE (a[1] - B16) * B16 + a[2]

\* a half pair with halves that may exceed 16 bit, reduced modulo 2^32.
Norm(h, l) == <<(h + l \div B16) % B16, l % B16>>

\* a + b (uint32_t).
U32Add(a, b) == Norm(a[1] + b[1], a[2] + b[2])

\* a - b (uint32_t): the difference modulo 2^32.
U32Sub(a, b) ==
    IF a[2] >= b[2]
    THEN <<(a[1] - b[1] + B16) % B16, a[2] - b[2]>>
    ELSE <<(a[1] - b[1] - 1 + B16) % B16, a[2] - b[2] + B16>>

\* a >= b, a > b, a <= b (unsigned comparison).
U32Ge(a, b) == a[1] > b[1] \/ (a[1] = b[1] /\ a[2] >= b[2])
U32Gt(a, b) == a[1] > b[1] \/ (a[1] = b[1] /\ a[2] > b[2])
U32Le(a, b) == U32Ge(b, a)

\* x * y for 16 bit x and y, as a pair of halves (the product is below 2^32).
Mul16(x, y) ==
    LET p0 == x * (y % 256)
        p1 == x * (y \div 256)
    IN  Norm(p1 \div 256, p0 + (p1 % 256) * 256)

\* (x * y) % 2^16 for 16 bit x and y.
Mul16Low(x, y) == (x * (y % 256) + ((x * (y \div 256)) % 256) * 256) % B16

\* a * b (uint32_t): the product modulo 2^32.
U32Mul(a, b) ==
    LET ll == Mul16(a[2], b[2])
    IN  <<(ll[1] + Mul16Low(a[1], b[2]) + Mul16Low(a[2], b[1])) % B16, ll[2]>>

\* a << n (uint32_t), 0 <= n < 16: bits shifted out at the top are lost.
U32Shl(a, n) ==
    <<(a[1] * 2^n + a[2] \div 2^(16 - n)) % B16, (a[2] * 2^n) % B16>>

\* a >> n (uint32_t), 0 <= n < 16.
U32Shr(a, n) ==
    <<a[1] \div 2^n, a[2] \div 2^n + (a[1] % 2^n) * 2^(16 - n)>>

\* Bit i of a, 0 <= i < 32.
Bit(a, i) == IF i >= 16 THEN (a[1] \div 2^(i - 16)) % 2 ELSE (a[2] \div 2^i) % 2

\* 2^i as a uint32_t, 0 <= i < 32.
Pow2(i) == IF i >= 16 THEN <<2^(i - 16), 0>> ELSE <<0, 2^i>>

\* One step of restoring division: bit i of a is brought into the remainder
\* qr[2] (below b, so twice it plus one is below 2^33: its high half may
\* exceed 16 bit here), b is subtracted when it fits, and bit i of the
\* quotient qr[1] is set accordingly.
DivStep(a, b, i, qr) ==
    LET l  == 2 * qr[2][2] + Bit(a, i)
        r2 == <<2 * qr[2][1] + l \div B16, l % B16>>
    IN  IF U32Ge(r2, b)
        THEN <<U32Add(qr[1], Pow2(i)),
               IF r2[2] >= b[2]
               THEN <<r2[1] - b[1], r2[2] - b[2]>>
               ELSE <<r2[1] - b[1] - 1, r2[2] - b[2] + B16>> >>
        ELSE <<qr[1], r2>>

\* The quotient of a by b from bit i down, given the quotient and remainder
\* qr of the bits above i.
RECURSIVE DivBits(_, _, _, _)
DivBits(a, b, i, qr) ==
    IF i < 0 THEN qr[1]
    ELSE CHOOSE q \in {DivBits(a, b, i - 1, n) : n \in {DivStep(a, b, i, qr)}} : TRUE

\* a / b (uint32_t): the quotient rounded towards zero.  A division by zero
\* is undefined in C++; the callers below decide what follows from it, and
\* the operator itself then yields 0, the result of the Cortex-M UDIV
\* instruction with trapping disabled.
U32Div(a, b) ==
    IF b = <<0, 0>> THEN <<0, 0>>
    ELSE IF b[1] = 0 /\ b[2] < 2^15
    THEN <<a[1] \div b[2], ((a[1] % b[2]) * B16 + a[2]) \div b[2]>>
    ELSE DivBits(a, b, 31, <<<<0, 0>>, <<0, 0>>>>)

U32Zero == <<0, 0>>
U32Max == <<B16 - 1, B16 - 1>>

(***************************************************************************)
(* Configuration: the macros of lipo.hpp and of the STM32 LL ADC driver    *)
(***************************************************************************)

LIPO_ADCCHANNEL_0 == 0
LIPO_ADCCHANNELS == 6
LIPO_DEFAULT_GATETIME == 250
LIPO_VCELL_MIN == 250
LIPO_VREFINT == 1200
LIPO_DENOMINATOR == 11

\* __LL_ADC_DIGITAL_SCALE(LL_ADC_RESOLUTION_12B): the full scale code.
ADC_DIGITAL_SCALE_12B == 4095

\* The indices of the arrays Accu, VCell and pParam->CellScale.
Channels == 0 .. LIPO_ADCCHANNELS - 1

\* The members the constructor sets and nothing changes afterwards.
CellScaleDen == LIPO_DENOMINATOR
AdcChStart == LIPO_ADCCHANNEL_0
AdcChCnt == LIPO_ADCCHANNELS

(***************************************************************************)
(* Bounds of the model                                                     *)
(***************************************************************************)

\* task() and the sampling loop of calibrate() take no further sample once
\* they have taken MaxSamples samples one by one.
MaxSamples == 2

\* The clock advances at most MaxTicks times, but for the time calibrate()
\* waits for it under SpecLive.
MaxTicks == 3

(***************************************************************************)
(* State                                                                   *)
(***************************************************************************)

VARIABLES
    CellScale,  \* pParam->CellScale: the caller's scale factors, uint32_t each
    GateTime,   \* uint16_t
    LastTick,   \* uint32_t
    SampleCnt,  \* uint32_t
    Samples,    \* uint32_t
    VRefAdc,    \* uint32_t
    Accu,       \* uint32_t Accu[LIPO_ADCCHANNELS]
    VCell,      \* uint32_t VCell[LIPO_ADCCHANNELS]
    now,        \* millis(): the millisecond clock of the board, uint32_t
    adc,        \* the codes the ADC converts at present: adc.pin[ch] for the
                \* channel ch, adc.ref for the internal reference AVREF
    pc,         \* "idle": no call is active; "calibrate": calibrate() is in
                \* its sampling loop; "fault": the processor has trapped
    cal,        \* the arguments cell and voltage of the latest calibrate()
                \* and, once it has returned, the samples it has averaged
    last,       \* the last call: its name, arguments, return value and the
                \* undefined operations it executed
    ticks,      \* how often the clock has advanced
    window,     \* the window in progress: what has set LastTick ("LiPo", a
                \* "task" that reported new data, or "calibrate"), the gate
                \* time of then, and whether setGateTime was called since
    sinceTick   \* the milliseconds that have passed since the clock read
                \* LastTick, counted by the ticks of the clock: the length of
                \* the window so far.  Before the first window LastTick is 0;
                \* a clock that then reads 2^32 - k is k ms before reading 0
                \* again, and the count starts at -k

vars == <<CellScale, GateTime, LastTick, SampleCnt, Samples, VRefAdc, Accu, VCell,
          now, adc, pc, cal, last, ticks, window, sinceTick>>

(***************************************************************************)
(* The environment: ADC readings, the clock, the caller's parameters       *)
(***************************************************************************)

\* The least ADC code that the conversion of update() turns into mv
\* millivolt when the reference measures vref millivolt.
CodeFor(mv, vref) == (mv * ADC_DIGITAL_SCALE_12B + vref - 1) \div vref

\* A three cell pack on dividers of ratio 1, 2 and 4 at a 1200 mV reference,
\* the other channels open: cumulative voltages 1000, 1900, 2800 mV.
PackPins ==
    [ch \in Channels |->
        CASE ch = 0 -> CodeFor(1000, 1200)
          [] ch = 1 -> CodeFor(950, 1200)
          [] ch = 2 -> CodeFor(700, 1200)
          [] OTHER  -> 0]

\* Every channel at the same code.
FlatPins(code) == [ch \in Channels |-> code]

\* Scale factors for dividers of ratio 1, 2, 4, 4, 8, 8.
StackScale ==
    [ch \in Channels |->
        CASE ch = 0 -> U(2048)
          [] ch = 1 -> U(4096)
          [] ch \in {2, 3} -> U(8192)
          [] OTHER -> U(16384)]

\* Scale factors for dividers of ratio 1 throughout.
UnitScale == [ch \in Channels |-> U(2048)]

\* The clock at construction: just after boot, or shortly before the clock
\* rolls over from 2^32 - 1 to 0.
StartTimes == {U32Zero, U32Sub(U32Zero, U(2))}

\* The steps the clock advances by between two reads of it.
TickSteps == {1, LIPO_DEFAULT_GATETIME - 1}

\* analogRead(channel): the code of the channel at present.
analogRead(ch) == U(adc.pin[ch])

\* analogRead(AVREF).
analogReadAVREF == U(adc.ref)

\* millis().
millis == now

(***************************************************************************)
(* The private helpers of LiPo                                             *)
(***************************************************************************)

\* LiPo::updateVref: the value it assigns to VRefAdc.
updateVref ==
    U32Div(U32Mul(U(LIPO_VREFINT), U(ADC_DIGITAL_SCALE_12B)), analogReadAVREF)

\* A conversion that divides before it multiplies.
CalcDataToVoltage_DivideFirst(vref, data) ==
    U32Mul(U32Div(data, U(ADC_DIGITAL_SCALE_12B)), vref)

\* __LL_ADC_CALC_DATA_TO_VOLTAGE(vref, data, LL_ADC_RESOLUTION_12B).
CalcDataToVoltage(vref, data) ==
    U32Div(U32Mul(data, vref), U(ADC_DIGITAL_SCALE_12B))

\* Accu[i] /= SampleCnt.
Average(acc, cnt) == U32Div(acc, cnt)

\* An update() that applies no scale factor.
ScaleCell_Unscaled(mv, scale) == mv

\* (VCell[i] * pParam->CellScale[i]) >> CellScaleDen.
ScaleCell(mv, scale) == U32Shr(U32Mul(mv, scale), CellScaleDen)

\* LiPo::update: the value it assigns to VCell[i], from the reference
\* voltage vref it has just measured, the accumulator acc of the channel,
\* the sample counter cnt and the scale factor of the channel.
updateVCell(vref, acc, cnt, scale) ==
    ScaleCell(CalcDataToVoltage(vref, Average(acc, cnt)), scale)

\* A task() that does not count its sample.
SampleCntInc_Skipped(cnt) == cnt

\* SampleCnt++ in task().
SampleCntInc(cnt) == U32Add(cnt, U(1))

\* A loop that stops one channel early.
Accumulate_OneShort(acc) ==
    [i \in 0 .. AdcChCnt - 1 |->
        IF i < AdcChCnt - 1 THEN U32Add(acc[i], analogRead(AdcChStart + i)) ELSE acc[i]]

\* Accu[i] += analogRead(AdcChStart + i), for every channel, in task().
Accumulate(acc) ==
    [i \in 0 .. AdcChCnt - 1 |-> U32Add(acc[i], analogRead(AdcChStart + i))]

\* A comparison that is off by one millisecond.
TaskDue_Early(t) == U32Ge(U32Add(U32Sub(t, LastTick), U(1)), U(GateTime))

\* A comparison that is not safe against the rollover of the clock:
\* millis >= LastTick + GateTime.
TaskDue_Absolute(t) == U32Ge(t, U32Add(LastTick, U(GateTime)))

\* millis - LastTick >= GateTime in task(): GateTime is converted to
\* unsigned int, the difference is taken modulo 2^32.
TaskDue(t) == U32Ge(U32Sub(t, LastTick), U(GateTime))

\* millis() - LastTick <= GateTime, the condition of the loop of calibrate().
CalibrateSampling == U32Le(U32Sub(millis, LastTick), U(GateTime))

\* What a call leaves in last: its name, its arguments, its return value,
\* the undefined operations it executed ("div0": a division by zero, "oob":
\* an array element outside its array) and what it printed.
Call(op, arg, ret, ub) ==
    [op |-> op, arg |-> arg, ret |-> ret, ub |-> ub, out |-> <<>>]

\* The number of calls of task() in a run of calls that fills the range of
\* uint16_t.
LongWindow == B16 - 1

\* The samples of the window that were taken one by one, the others in one
\* run of LongWindow calls.
SamplesOneByOne == N(SampleCnt) % LongWindow

\* The window that starts when by sets LastTick.
WindowOpened(by) == [by |-> by, gate |-> GateTime, set |-> FALSE]

\* Whether at least g milliseconds have passed since the clock read
\* LastTick, modulo 2^32: a count of -k stands for 2^32 - k.
Elapsed(g) == sinceTick < 0 \/ sinceTick >= g

(***************************************************************************)
(* LiPo::LiPo                                                              *)
(***************************************************************************)

\* The state after construction, for the scale factors params of the
\* caller, with the clock at one of starts and the ADC in one of worlds.
Construct(params, starts, worlds) ==
    /\ CellScale \in params
    /\ GateTime = LIPO_DEFAULT_GATETIME
    /\ LastTick = U32Zero
    /\ SampleCnt = U32Zero
    /\ Samples = U32Zero
    /\ VRefAdc = U32Zero
    /\ Accu = [i \in Channels |-> U32Zero]
    /\ VCell = [i \in Channels |-> U32Zero]
    /\ now \in starts
    /\ adc \in worlds
    /\ pc = "idle"
    /\ cal = [cell |-> 0, voltage |-> U32Zero, samples |-> U32Zero]
    /\ last = Call("LiPo", <<>>, <<>>, {})
    /\ ticks = 0
    /\ window = WindowOpened("LiPo")
    /\ sinceTick = Signed(now)

(***************************************************************************)
(* LiPo::setGateTime                                                       *)
(***************************************************************************)

\* A setGateTime that starts the window anew.
SetGateTime_Restart(ms) ==
    /\ pc = "idle"
    /\ GateTime' = ms
    /\ LastTick' = millis
    /\ sinceTick' = 0
    /\ last' = Call("setGateTime", <<ms>>, <<>>, {})
    /\ window' = [window EXCEPT !.set = TRUE]
    /\ UNCHANGED <<CellScale, SampleCnt, Samples, VRefAdc, Accu, VCell,
                   now, adc, pc, cal, ticks>>

SetGateTime(ms) ==
    /\ pc = "idle"
    /\ GateTime' = ms
    /\ last' = Call("setGateTime", <<ms>>, <<>>, {})
    /\ window' = [window EXCEPT !.set = TRUE]
    /\ UNCHANGED <<CellScale, LastTick, SampleCnt, Samples, VRefAdc, Accu, VCell,
                   now, adc, pc, cal, ticks, sinceTick>>

(***************************************************************************)
(* LiPo::task, with LiPo::update and LiPo::updateVref                      *)
(***************************************************************************)

\* A task() that never reports its new data.
TaskReturn_Silent(due) == FALSE

\* bool newData = false; ... newData = true; ... return newData.
TaskReturn(due) == due

\* task(millis()): the caller passes the current wall clock.
Task ==
    /\ pc = "idle"
    /\ SamplesOneByOne < MaxSamples
    /\ LET t   == millis
           cnt == SampleCntInc(SampleCnt)
           acc == Accumulate(Accu)
       IN  IF TaskDue(t)
           THEN /\ LastTick' = t
                /\ VRefAdc' = updateVref
                /\ VCell' = [i \in 0 .. AdcChCnt - 1 |->
                                updateVCell(updateVref, acc[i], cnt, CellScale[i])]
                /\ Accu' = [i \in 0 .. AdcChCnt - 1 |-> U32Zero]
                /\ Samples' = cnt
                /\ SampleCnt' = U32Zero
                /\ sinceTick' = 0
                /\ window' = WindowOpened("task")
                /\ last' = Call("task", <<t>>, TaskReturn(TRUE),
                                IF cnt = U32Zero THEN {"div0"} ELSE {})
           ELSE /\ Accu' = acc
                /\ SampleCnt' = cnt
                /\ last' = Call("task", <<t>>, TaskReturn(FALSE), {})
                /\ UNCHANGED <<LastTick, VRefAdc, VCell, Samples, window, sinceTick>>
    /\ UNCHANGED <<CellScale, GateTime, now, adc, pc, cal, ticks>>

\* k calls of task(millis()) in a row at the start of a window, none of
\* which finds the window over: each adds the reading of every channel to
\* its accumulator and 1 to SampleCnt.
TaskBurst(k) ==
    /\ pc = "idle"
    /\ SampleCnt = U32Zero
    /\ ~TaskDue(millis)
    /\ Accu' = [i \in 0 .. AdcChCnt - 1 |->
                   U32Add(Accu[i], U32Mul(U(k), analogRead(AdcChStart + i)))]
    /\ SampleCnt' = U32Add(SampleCnt, U(k))
    /\ last' = Call("task", <<millis>>, FALSE, {})
    /\ UNCHANGED <<CellScale, GateTime, LastTick, Samples, VRefAdc, VCell,
                   now, adc, pc, cal, ticks, window, sinceTick>>

(***************************************************************************)
(* LiPo::getCell, LiPo::getNumCells, LiPo::getMinCell                      *)
(***************************************************************************)

\* Whether getCell(cell, abs) reads VCell[cell] with cell outside the array.
getCellOutOfBounds(cell, abs) == (cell = 0 \/ abs) /\ cell \notin Channels

\* A getCell that subtracts without comparing first.
getCell_Unchecked(cell, abs) ==
    IF cell = 0 \/ abs THEN VCell[cell]
    ELSE IF cell >= AdcChCnt THEN U32Zero
    ELSE U32Sub(VCell[cell], VCell[cell - 1])

\* getCell(cell, abs), when it reads no element outside VCell.
getCell(cell, abs) ==
    IF cell = 0 \/ abs THEN VCell[cell]
    ELSE IF cell >= AdcChCnt THEN U32Zero
    ELSE IF U32Ge(VCell[cell], VCell[cell - 1])
         THEN U32Sub(VCell[cell], VCell[cell - 1])
    ELSE U32Zero

\* A test that takes a cell of exactly the minimum voltage for absent.
CellValid_Strict(i) == U32Gt(getCell(i, FALSE), U(LIPO_VCELL_MIN))

\* getCell(i) >= LIPO_VCELL_MIN, the test of getNumCells and getMinCell.
CellValid(i) == U32Ge(getCell(i, FALSE), U(LIPO_VCELL_MIN))

\* A loop of getNumCells that stops at the first cell below the minimum.
RECURSIVE getNumCellsLoop_StopAtGap(_, _, _)
getNumCellsLoop_StopAtGap(i, cells, done) ==
    IF i >= AdcChCnt THEN cells
    ELSE IF CellValid(i) THEN getNumCellsLoop_StopAtGap(i + 1, cells + 1, done)
    ELSE cells

\* The loop of getNumCells from channel i on, with the locals cells and done.
RECURSIVE getNumCellsLoop(_, _, _)
getNumCellsLoop(i, cells, done) ==
    IF i >= AdcChCnt THEN cells
    ELSE IF CellValid(i)
         THEN IF ~done THEN getNumCellsLoop(i + 1, cells + 1, done)
              ELSE -1
    ELSE getNumCellsLoop(i + 1, cells, TRUE)

\* getNumCells().
getNumCells == getNumCellsLoop(0, 0, FALSE)

\* A minimum that keeps its first argument.
U32Min_First(a, b) == a

\* min(a, b) of Arduino.h on uint32_t.
U32Min(a, b) == IF U32Gt(a, b) THEN b ELSE a

\* The loop of getMinCell from channel i on, with the local volt.
RECURSIVE getMinCellLoop(_, _, _)
getMinCellLoop(i, cells, volt) ==
    IF i >= cells THEN volt
    ELSE IF CellValid(i)
         THEN getMinCellLoop(i + 1, cells, U32Min(volt, getCell(i, FALSE)))
    ELSE getMinCellLoop(i + 1, cells, volt)

\* getMinCell().
getMinCell ==
    IF getNumCells > 0 THEN getMinCellLoop(0, getNumCells, U32Max) ELSE U32Zero

\* The words a read beyond the end of VCell may find.
StrayWords == {U32Zero, U(3700), U32Max}

\* An accessor that clears the scale factors.
Accessor_Rescaling(op, arg, ret, ub) ==
    /\ pc = "idle"
    /\ last' = Call(op, arg, ret, ub)
    /\ CellScale' = [i \in Channels |-> U32Zero]
    /\ UNCHANGED <<GateTime, LastTick, SampleCnt, Samples, VRefAdc, Accu,
                   VCell, now, adc, pc, cal, ticks, window, sinceTick>>

\* An accessor changes nothing but what the caller sees.
Accessor(op, arg, ret, ub) ==
    /\ pc = "idle"
    /\ last' = Call(op, arg, ret, ub)
    /\ UNCHANGED <<CellScale, GateTime, LastTick, SampleCnt, Samples, VRefAdc, Accu,
                   VCell, now, adc, pc, cal, ticks, window, sinceTick>>

GetCell(cell, abs) ==
    IF getCellOutOfBounds(cell, abs)
    THEN \E w \in StrayWords : Accessor("getCell", <<cell, abs>>, w, {"oob"})
    ELSE Accessor("getCell", <<cell, abs>>, getCell(cell, abs), {})

GetNumCells == Accessor("getNumCells", <<>>, getNumCells, {})

GetMinCell == Accessor("getMinCell", <<>>, getMinCell, {})

(***************************************************************************)
(* LiPo::getSamples, LiPo::getVref                                         *)
(***************************************************************************)

\* getSamples(): Samples converted to uint16_t.
getSamples == Samples[2]

getVref == VRefAdc

GetSamples == Accessor("getSamples", <<>>, getSamples, {})

GetVref == Accessor("getVref", <<>>, getVref, {})

(***************************************************************************)
(* LiPo::calibrate                                                         *)
(***************************************************************************)

\* What a division by zero may yield where it does not trap.
DivZeroQuotients == {U32Zero, U32Max}

\* calibrate(cell, voltage) up to its loop, for a cell of the arrays.
CalibrateBegin(cell, voltage) ==
    /\ pc = "idle"
    /\ cell \in Channels
    /\ VRefAdc' = updateVref
    /\ Accu' = [Accu EXCEPT ![cell] = U32Zero]
    /\ SampleCnt' = U32Zero
    /\ LastTick' = millis
    /\ sinceTick' = 0
    /\ window' = WindowOpened("calibrate")
    /\ pc' = "calibrate"
    /\ cal' = [cell |-> cell, voltage |-> voltage, samples |-> U32Zero]
    /\ last' = Call("calibrate", <<cell, voltage>>, <<>>, {})
    /\ UNCHANGED <<CellScale, GateTime, Samples, VCell, now, adc, ticks>>

\* One pass of the loop of calibrate().
CalibrateSample ==
    /\ pc = "calibrate"
    /\ CalibrateSampling
    /\ N(SampleCnt) < MaxSamples
    /\ Accu' = [Accu EXCEPT ![cal.cell] = U32Add(@, analogRead(AdcChStart + cal.cell))]
    /\ SampleCnt' = U32Add(SampleCnt, U(1))
    /\ UNCHANGED <<CellScale, GateTime, LastTick, Samples, VRefAdc, VCell,
                   now, adc, pc, cal, last, ticks, window, sinceTick>>

\* A calibrate() that forgets to shift the voltage.
CalibrateNumerator_Unshifted(voltage) == voltage

\* voltage <<= CellScaleDen.
CalibrateNumerator(voltage) == U32Shl(voltage, CellScaleDen)

\* The scale factor calibrate() stores, from the numerator and the measured
\* voltage mv.
CalibrateScale(voltage, mv) == U32Div(CalibrateNumerator(voltage), mv)

\* What calibrate() has printed when it divides by the measured voltage: the
\* averaged code raw, the number of samples and the old scale factor.
CalibratePrinted(raw) ==
    [raw |-> raw, samples |-> SampleCnt, old |-> CellScale[cal.cell]]

\* calibrate() from the end of its loop to its return.  Both divisions are
\* undefined when their divisor is 0: the processor traps, or the division
\* yields some quotient and the call goes on.
CalibrateEnd ==
    /\ pc = "calibrate"
    /\ ~CalibrateSampling
    /\ \E q1 \in IF SampleCnt = U32Zero THEN DivZeroQuotients
                 ELSE {Average(Accu[cal.cell], SampleCnt)} :
         LET mv  == CalcDataToVoltage(VRefAdc, q1)
             ub  == IF SampleCnt = U32Zero \/ mv = U32Zero THEN {"div0"} ELSE {}
         IN  \/ /\ \E q2 \in IF mv = U32Zero THEN DivZeroQuotients
                            ELSE {CalibrateScale(cal.voltage, mv)} :
                      CellScale' = [CellScale EXCEPT ![cal.cell] = q2]
                /\ Accu' = [i \in Channels |-> U32Zero]
                /\ SampleCnt' = U32Zero
                /\ LastTick' = millis
                /\ sinceTick' = 0
                /\ window' = WindowOpened("calibrate")
                /\ pc' = "idle"
                /\ cal' = [cal EXCEPT !.samples = SampleCnt]
                /\ last' = [Call("calibrate", <<cal.cell, cal.voltage>>, U32Zero, ub)
                               EXCEPT !.out = CalibratePrinted(q1)]
                /\ UNCHANGED <<GateTime, Samples, VRefAdc, VCell, now, adc, ticks>>
             \/ /\ ub # {}
                /\ pc' = "fault"
                /\ last' = [Call("calibrate", <<cal.cell, cal.voltage>>, <<>>, ub)
                               EXCEPT !.out = CalibratePrinted(q1)]
                /\ UNCHANGED <<CellScale, GateTime, LastTick, SampleCnt, Samples,
                               VRefAdc, Accu, VCell, now, adc, cal, ticks, window,
                               sinceTick>>

\* calibrate(cell, voltage) for a cell outside the arrays: Accu[cell] and
\* pParam->CellScale[cell] are written outside Accu and outside the caller's
\* structure.  The processor traps, or the writes land in what follows the
\* arrays: VCell follows Accu in the object, and what follows the caller's
\* structure is no state of this class.
CalibrateOutOfBounds(cell, voltage) ==
    /\ pc = "idle"
    /\ cell \notin Channels
    /\ last' = Call("calibrate", <<cell, voltage>>, U32Zero, {"oob"})
    /\ \/ /\ pc' = "fault"
          /\ UNCHANGED <<CellScale, GateTime, LastTick, SampleCnt, Samples, VRefAdc,
                         Accu, VCell, now, adc, cal, ticks, window, sinceTick>>
       \/ /\ VRefAdc' = updateVref
          /\ Accu' = [i \in Channels |-> U32Zero]
          /\ SampleCnt' = U32Zero
          /\ LastTick' = millis
          /\ sinceTick' = 0
          /\ window' = WindowOpened("calibrate")
          /\ \/ UNCHANGED VCell
             \/ /\ cell - LIPO_ADCCHANNELS \in Channels
                /\ \E w \in StrayWords :
                     VCell' = [VCell EXCEPT ![cell - LIPO_ADCCHANNELS] = w]
          /\ UNCHANGED <<CellScale, GateTime, Samples, now, adc, pc, cal, ticks>>

(***************************************************************************)
(* The environment's steps                                                 *)
(***************************************************************************)

\* The clock advances by d milliseconds.
Tick(d) ==
    /\ pc # "fault"
    /\ ticks < MaxTicks
    /\ now' = U32Add(now, U(d))
    /\ ticks' = ticks + 1
    /\ sinceTick' = sinceTick + d
    /\ UNCHANGED <<CellScale, GateTime, LastTick, SampleCnt, Samples, VRefAdc, Accu,
                   VCell, adc, pc, cal, last, window>>

\* The clock advances by d milliseconds while calibrate() is in its loop:
\* the clock does not stop while calibrate() waits for it.
LoopTick(d) ==
    /\ pc = "calibrate"
    /\ CalibrateSampling
    /\ now' = U32Add(now, U(d))
    /\ ticks' = ticks + 1
    /\ sinceTick' = sinceTick + d
    /\ UNCHANGED <<CellScale, GateTime, LastTick, SampleCnt, Samples, VRefAdc, Accu,
                   VCell, adc, pc, cal, last, window>>

\* The voltages at the ADC change.
AdcChange(worlds) ==
    /\ pc # "fault"
    /\ adc' \in worlds \ {adc}
    /\ UNCHANGED <<CellScale, GateTime, LastTick, SampleCnt, Samples, VRefAdc, Accu,
                   VCell, now, pc, cal, last, ticks, window, sinceTick>>

(***************************************************************************)
(* The monitor on a three cell pack: windows and the clock                 *)
(***************************************************************************)

\* The gate times the caller sets.
GateTimes == {0, 2}

\* The voltages the caller calibrates to, in mV.
CalVoltages == {U(1000)}

\* The three cell pack at a supply of 1200 mV, where the reference reads
\* full scale.  The reading of the reference is never 0 in this model: the
\* internal reference is a nonzero voltage.
PackWorld == [pin |-> PackPins, ref |-> ADC_DIGITAL_SCALE_12B]

Init == Construct({StackScale}, StartTimes, {PackWorld})

Next ==
    \/ \E ms \in GateTimes : SetGateTime(ms)
    \/ Task
    \/ \E v \in CalVoltages : CalibrateBegin(0, v)
    \/ CalibrateSample
    \/ CalibrateEnd
    \/ \E v \in CalVoltages : CalibrateOutOfBounds(LIPO_ADCCHANNELS, v)
    \/ \E d \in TickSteps : Tick(d)

Spec == Init /\ [][Next]_vars

(***************************************************************************)
(* Properties of the windows                                               *)
(***************************************************************************)

\* C1: task() reports new data exactly when at least GateTime milliseconds
\* have passed since the clock read LastTick (the difference modulo 2^32),
\* also when the clock has rolled over in between; the window then starts
\* anew, so that new data is reported once per window.
C1_TaskReportsAtGateTime ==
    [][Task => /\ last'.ret = Elapsed(GateTime)
               /\ last'.ret => sinceTick' = 0 /\ LastTick' = now]_vars

\* A window that started before the clock rolled over is closed after it.
C1_Witness ==
    /\ last.op = "task" /\ last.ret = TRUE
    /\ GateTime = 2 /\ ticks = 2 /\ now = U32Zero /\ sinceTick = 0

\* C4: whenever update() has run, the sample counter it divided by (and
\* stored in Samples) was greater than 0.
C4_UpdateDividesByPositive ==
    (last.op = "task" /\ last.ret = TRUE) => (Samples # U32Zero /\ last.ub = {})

\* A window of two samples is finalized after the gate time was changed.
C4_Witness ==
    /\ last.op = "task" /\ last.ret = TRUE
    /\ Samples = U(2) /\ GateTime = 2

\* What setGateTime leaves alone.
SetGateTimeFrame ==
    SetGateTime(GateTime') =>
        /\ last'.arg = <<GateTime'>>
        /\ UNCHANGED <<CellScale, LastTick, SampleCnt, Samples, VRefAdc, Accu, VCell,
                       sinceTick>>

\* C14 (as claimed): setGateTime changes nothing but GateTime, and the
\* window in progress still ends by the gate time it started with.
C14_WindowKeepsItsGateTime ==
    [][/\ SetGateTimeFrame
       /\ Task => (last'.ret = Elapsed(window.gate))]_vars

\* C14 (amended): setGateTime changes nothing but GateTime, and the window
\* in progress ends by the gate time set last.
C14_GateTimeAppliesAtOnce ==
    [][/\ SetGateTimeFrame
       /\ (Task /\ window.set) => (last'.ret = Elapsed(GateTime))]_vars

\* The first window, started with the gate time of 250 ms, has ended after
\* 2 ms and two samples, the gate time having been set to 2 ms meanwhile.
C14_Witness ==
    /\ last.op = "task" /\ last.ret = TRUE
    /\ GateTime = 2 /\ LastTick = U(2) /\ now = U(2) /\ ticks = 2
    /\ Samples = U(2) /\ window = WindowOpened("task")

\* C19: when task() reports new data at the time now and the window it
\* closes was opened by a task() that reported new data at the time LastTick,
\* with no setGateTime() and no calibrate() since, then (now - LastTick) mod
\* 2^32, which is the time the clock has counted in between, is at least
\* GateTime.
C19_FinalizationsAGateTimeApart ==
    [][(Task /\ last'.ret /\ window.by = "task" /\ ~window.set) =>
         /\ GateTime = window.gate
         /\ U32Sub(now, LastTick) = U(sinceTick)
         /\ sinceTick >= GateTime]_vars

\* Two windows in a row have been finalized 250 ms apart, the first before
\* and the second after the clock rolled over.
C19_Witness ==
    /\ last.op = "task" /\ last.ret = TRUE /\ window = WindowOpened("task")
    /\ GateTime = LIPO_DEFAULT_GATETIME /\ ticks = 2
    /\ now = U(LIPO_DEFAULT_GATETIME - 2) /\ LastTick = now

\* C13 (as claimed): calibrate() with a cell outside the configured channels
\* accesses no element outside the arrays and changes nothing: no scale
\* factor, and nothing of the monitor.
C13_CalibrateOutOfRangeIsNoOp ==
    [][(pc = "idle" /\ last'.op = "calibrate" /\ last'.arg[1] >= AdcChCnt)
         => (/\ last'.ub = {}
             /\ pc' = "idle"
             /\ UNCHANGED <<CellScale, LastTick, SampleCnt, VRefAdc, Accu, VCell>>)]_vars

(***************************************************************************)
(* The monitor on packs of every shape: the cell voltages and their count  *)
(***************************************************************************)

\* The cumulative voltages, in mV, a channel is held at: no voltage, a full
\* cell above a stack of full cells below it, and a cell just below the
\* minimum above that stack; for the two lowest channels also a cell of
\* exactly the minimum, and for channel 2 a voltage below every stack.
Levels(ch) ==
    {0, 300 * (ch + 1), 300 * ch + LIPO_VCELL_MIN - 1}
        \cup (IF ch <= 1 THEN {300 * ch + LIPO_VCELL_MIN} ELSE {})
        \cup (IF ch = 2 THEN {100} ELSE {})

\* Every combination of those voltages on dividers of ratio 1, at a supply
\* of 3300 mV, where the reference reads 1489.
CellWorlds ==
    { [pin |-> [ch \in Channels |-> CodeFor(mv[ch + 1], 3300)], ref |-> 1489] :
        mv \in Levels(0) \X Levels(1) \X Levels(2) \X Levels(3) \X Levels(4)
                 \X Levels(5) }

\* The cell numbers the caller asks for: uint8_t, inside and outside the
\* configured channels.
CellArgs == (0 .. LIPO_ADCCHANNELS + 1) \cup {255}

InitCells ==
    \/ Construct({UnitScale}, {U(300)}, CellWorlds)
    \/ Construct({StackScale}, {U(300)}, {PackWorld})

NextCells ==
    \/ Task
    \/ \E cell \in CellArgs, abs \in BOOLEAN : GetCell(cell, abs)
    \/ GetNumCells
    \/ GetMinCell
    \/ GetSamples
    \/ GetVref

SpecCells == InitCells /\ [][NextCells]_vars

\* The voltage of cell i in mV as a number: the cumulative voltage of
\* channel 0, the difference to the channel below for the others, 0 where
\* that difference is negative.
CellMv(i) ==
    IF i = 0 THEN N(VCell[0])
    ELSE IF N(VCell[i]) >= N(VCell[i - 1]) THEN N(VCell[i]) - N(VCell[i - 1])
    ELSE 0

\* The channels with a cell of at least the minimum voltage.
ValidCells == {i \in Channels : CellMv(i) >= LIPO_VCELL_MIN}

\* A valid cell above an invalid one.
ChainBroken == \E k \in Channels, j \in Channels : k < j /\ k \notin ValidCells /\ j \in ValidCells

\* C2 (as claimed): getCell with a cell outside the configured channels
\* returns 0 whether abs is set or not, and reads no element outside VCell.
C2_OutOfRangeCellYieldsZero ==
    (last.op = "getCell" /\ last.arg[1] >= AdcChCnt)
        => (last.ret = U32Zero /\ last.ub = {})

\* C5: getNumCells returns -1 exactly when a valid cell lies above an
\* invalid one.
C5_BrokenChainYieldsSentinel ==
    last.op = "getNumCells" => (last.ret = -1 <=> ChainBroken)

\* A pack with cell 0 and cell 2 valid and cell 1 absent.
C5_Witness ==
    /\ last.op = "getNumCells" /\ last.ret = -1
    /\ 0 \in ValidCells /\ 1 \notin ValidCells /\ 2 \in ValidCells

\* C6: with no valid cell above an invalid one, getNumCells returns the
\* number n of valid cells, and these are the cells 0 .. n-1.
C6_CountsTheValidCells ==
    (last.op = "getNumCells" /\ ~ChainBroken)
        => (last.ret = Cardinality(ValidCells) /\ ValidCells = 0 .. last.ret - 1)

\* The pack of three cells with cumulative voltages 1000, 1900 and 2800 mV.
C6_Witness ==
    /\ last.op = "getNumCells" /\ last.ret = 3
    /\ VCell[0] = U(1000) /\ VCell[1] = U(1900) /\ VCell[2] = U(2800)

\* The least voltage among the cells of s, a nonempty set of channels.
MinMv(s) == CHOOSE m \in {CellMv(i) : i \in s} : \A i \in s : m <= CellMv(i)

\* C7: getMinCell returns 0 when getNumCells returns -1 or 0, and else the
\* least voltage of the detected cells, which is at least the minimum
\* voltage of a cell.
C7_MinimumOfDetectedCells ==
    last.op = "getMinCell" =>
        IF ChainBroken \/ ValidCells = {} THEN last.ret = U32Zero
        ELSE /\ last.ret = U(MinMv(ValidCells))
             /\ N(last.ret) >= LIPO_VCELL_MIN
             /\ last.ret # U32Max

\* Three valid cells, the weakest of them in the middle.
C7_Witness ==
    /\ last.op = "getMinCell" /\ ValidCells = {0, 1, 2}
    /\ CellMv(1) < CellMv(0) /\ CellMv(1) < CellMv(2)
    /\ last.ret = U(CellMv(1))

\* C8: for a cell of the configured channels, getCell(cell, true) is
\* VCell[cell], getCell(0) is VCell[0], and getCell(cell) for cell > 0 is the
\* difference to the channel below, or 0 where VCell[cell] is the smaller.
C8_CellVoltage ==
    (last.op = "getCell" /\ last.arg[1] \in Channels) =>
        /\ last.ub = {}
        /\ last.arg[2] => last.ret = VCell[last.arg[1]]
        /\ ~last.arg[2] => last.ret = U(CellMv(last.arg[1]))

\* A cell above a channel of higher voltage reads 0.
C8_Witness ==
    /\ last.op = "getCell" /\ last.arg = <<2, FALSE>>
    /\ N(VCell[2]) < N(VCell[1]) /\ N(VCell[2]) > 0 /\ last.ret = U32Zero

\* A call of one of the five read accessors.
AccessorCall ==
    \/ \E cell \in CellArgs, abs \in BOOLEAN : GetCell(cell, abs)
    \/ GetNumCells
    \/ GetMinCell
    \/ GetSamples
    \/ GetVref

\* No call of an accessor changes a member of the monitor or a scale factor.
C16_AccessorsMutateNothing ==
    [][AccessorCall =>
         UNCHANGED <<CellScale, GateTime, LastTick, SampleCnt, Samples, VRefAdc,
                     Accu, VCell>>]_vars

\* C16 (as claimed): the accessors change no member of the monitor and no
\* scale factor, and a call repeated with the same arguments returns what
\* the call before it returned.
C16_AccessorsArePure ==
    /\ C16_AccessorsMutateNothing
    /\ [][(AccessorCall /\ last'.op = last.op /\ last'.arg = last.arg)
            => last'.ret = last.ret]_vars

(***************************************************************************)
(* The monitor on changing readings: accumulation, conversion, calibration *)
(***************************************************************************)

\* Channel ch at a code that falls with ch, channel 1 open.
RampPins ==
    [ch \in Channels |-> IF ch = 1 THEN 0 ELSE ADC_DIGITAL_SCALE_12B - 700 * ch]

DataWorlds ==
    { [pin |-> FlatPins(2048), ref |-> 4095],
      [pin |-> RampPins, ref |-> 1489] }

\* Scale factors with one, of channel 5, for a divider of ratio 4096.
WideScale == [StackScale EXCEPT ![5] = U(2^23)]

InitData == Construct({WideScale}, {U(300)}, DataWorlds)

NextData ==
    \/ SetGateTime(1)
    \/ Task
    \/ \E v \in CalVoltages : CalibrateBegin(1, v)
    \/ CalibrateSample
    \/ CalibrateEnd
    \/ Tick(1)
    \/ AdcChange(DataWorlds)

SpecData == InitData /\ [][NextData]_vars

\* C3 (as claimed): a calibrate() that has sampled and measured 0 mV divides
\* by nothing and leaves the scale factor of the cell as it was.
C3_ZeroMeasurementAborts ==
    (/\ last.op = "calibrate" /\ pc # "calibrate" /\ "oob" \notin last.ub
     /\ last.out.samples # U32Zero /\ last.out.raw = U32Zero)
        => (last.ub = {} /\ CellScale[last.arg[1]] = last.out.old)

\* C9: a task() that reports new data leaves every accumulator and SampleCnt
\* at 0; a task() that reports none has counted one sample and added the
\* reading of each channel to its accumulator.
C9_ResetOrAccumulate ==
    [][Task =>
         IF last'.ret
         THEN /\ \A i \in Channels : Accu'[i] = U32Zero
              /\ SampleCnt' = U32Zero
         ELSE /\ \A i \in Channels : N(Accu'[i]) = N(Accu[i]) + adc.pin[i]
              /\ N(SampleCnt') = N(SampleCnt) + 1
              /\ VCell' = VCell]_vars

\* A window of two samples has been finalized and everything is reset.
C9_Witness ==
    /\ last.op = "task" /\ last.ret = TRUE /\ Samples = U(2)
    /\ \A i \in Channels : Accu[i] = U32Zero
    /\ SampleCnt = U32Zero
    /\ VCell[0] # U32Zero

\* The quotient of a * b by c, rounded down, for numbers whose product may
\* exceed what a number of the checker holds: a = (a div c) c + (a mod c).
MulDiv(a, b, c) == (a \div c) * b + ((a % c) * b) \div c

\* Whether a * b is below 2^32.
Below32(a, b) == MulDiv(a, b, B16) < B16

\* The reference voltage for the reading r of the reference.
VrefOf(r) == (LIPO_VREFINT * ADC_DIGITAL_SCALE_12B) \div r

\* The voltage of the average of n samples summing to sum, at the reading r
\* of the reference, before scaling.
RawMv(r, sum, n) == MulDiv(VrefOf(r), sum \div n, ADC_DIGITAL_SCALE_12B)

\* The cumulative voltage of the formula: the raw voltage times the scale
\* factor k, shifted right by 11.
FormulaMv(r, sum, n, k) == MulDiv(k, RawMv(r, sum, n), 2^LIPO_DENOMINATOR)

\* C10 (as claimed): a finalized window leaves in VCell[i] the value of the
\* formula, for every sample value and every scale factor.
C10_FormulaForEveryScale ==
    [][(Task /\ last'.ret) =>
         \A i \in Channels :
            Small(CellScale[i]) =>
               VCell'[i] = U(FormulaMv(adc.ref, N(Accu[i]) + adc.pin[i],
                                       N(SampleCnt) + 1, N(CellScale[i])))]_vars

\* C10 (amended): a finalized window leaves in VCell[i] the value of the
\* formula wherever the two products of the formula are below 2^32.
C10_FormulaWithinUint32 ==
    [][(Task /\ last'.ret) =>
         \A i \in Channels :
            LET sum == N(Accu[i]) + adc.pin[i]
                n   == N(SampleCnt) + 1
                k   == CellScale[i]
            IN  (/\ Small(k)
                 /\ Below32(VrefOf(adc.ref), sum \div n)
                 /\ Below32(N(k), RawMv(adc.ref, sum, n)))
                  => VCell'[i] = U(FormulaMv(adc.ref, sum, n, N(k)))]_vars

\* The reference reads 4095, the samples are 2048 throughout and the scale
\* factor is 2048: the reference voltage is 1200 mV and VCell[0] is 600 mV.
C10_Witness ==
    /\ last.op = "task" /\ last.ret = TRUE /\ Samples = U(2)
    /\ adc.ref = 4095 /\ CellScale[0] = U(2048)
    /\ VRefAdc = U(1200) /\ VCell[0] = U(600)

\* C18: a task() that reports no new data leaves VCell, Samples, VRefAdc and
\* LastTick as they are, and with them what the five accessors return.
C18_ResultsPersist ==
    [][(Task /\ ~last'.ret) =>
         /\ UNCHANGED <<VCell, Samples, VRefAdc, LastTick>>
         /\ getNumCells' = getNumCells
         /\ getMinCell' = getMinCell
         /\ getSamples' = getSamples
         /\ getVref' = getVref
         /\ \A cell \in Channels, abs \in BOOLEAN :
               getCell(cell, abs)' = getCell(cell, abs)]_vars

\* A window was finalized at a reference of 1200 mV; the readings have
\* changed since and task() has taken a sample of them without reporting new
\* data.
C18_Witness ==
    /\ last.op = "task" /\ last.ret = FALSE
    /\ adc.ref = 1489 /\ Accu[0] = U(ADC_DIGITAL_SCALE_12B)
    /\ VRefAdc = U(1200) /\ VCell[0] = U(600)
    /\ Samples = U(1) /\ SampleCnt = U(1)

\* C12: calibrate() measures the reference anew when it starts, and when it
\* returns after at least one sample and a measured voltage m above 0, it has
\* stored (voltage << 11) div m as the scale factor of its cell and left the
\* other scale factors alone; m is (Vref * (sum div samples)) div 4095, with
\* no scale factor applied.
C12_CalibrateStoresScale ==
    [][/\ (pc = "idle" /\ pc' = "calibrate") => VRefAdc' = U(VrefOf(adc.ref))
       /\ (CalibrateEnd /\ pc' = "idle") =>
             LET n == N(SampleCnt)
                 m == MulDiv(N(VRefAdc), N(Accu[cal.cell]) \div n,
                             ADC_DIGITAL_SCALE_12B)
             IN  (n > 0 /\ m > 0) =>
                    /\ CellScale'[cal.cell] =
                          U((N(cal.voltage) * 2^LIPO_DENOMINATOR) \div m)
                    /\ \A i \in Channels \ {cal.cell} : CellScale'[i] = CellScale[i]
                    /\ last'.ub = {}]_vars

\* calibrate(1, 1000) has measured 600 mV in two samples and stored
\* 2048000 div 600.
C12_Witness ==
    /\ last.op = "calibrate" /\ pc = "idle" /\ last.ub = {}
    /\ last.arg = <<1, U(1000)>> /\ last.out.samples = U(2)
    /\ VRefAdc = U(1200) /\ last.out.raw = U(2048)
    /\ CellScale[1] = U(3413)
    /\ \A i \in Channels \ {1} : CellScale[i] = WideScale[i]

(***************************************************************************)
(* The monitor in full: every operation on the three cell pack             *)
(***************************************************************************)

InitAll == Construct({StackScale}, {U(300)}, {PackWorld})

NextAll ==
    \/ SetGateTime(1)
    \/ Task
    \/ \E cell \in {1, LIPO_ADCCHANNELS} : GetCell(cell, FALSE)
    \/ GetNumCells
    \/ GetMinCell
    \/ GetSamples
    \/ GetVref
    \/ \E v \in CalVoltages : CalibrateBegin(2, v)
    \/ CalibrateSample
    \/ CalibrateEnd
    \/ \E v \in CalVoltages : CalibrateOutOfBounds(LIPO_ADCCHANNELS, v)
    \/ Tick(1)

SpecAll == InitAll /\ [][NextAll]_vars

\* C17: a scale factor changes only in a step of calibrate(): no task(), no
\* setGateTime() and no accessor changes one.
C17_OnlyCalibrateRescales ==
    [][/\ (CellScale' # CellScale) => (pc = "calibrate" /\ last'.op = "calibrate")
       /\ (Task \/ SetGateTime(GateTime') \/ AccessorCall) => CellScale' = CellScale]_vars

\* calibrate(2, 1000) has set the scale factor of cell 2 on the pack, and a
\* window was finalized with it since.
C17_Witness ==
    /\ last.op = "task" /\ last.ret = TRUE
    /\ CellScale[2] = U(2925) /\ VCell[2] = U(999)
    /\ \A i \in Channels \ {2} : CellScale[i] = StackScale[i]

(***************************************************************************)
(* The monitor polled faster than once in a millisecond: long windows      *)
(***************************************************************************)

InitLong == Construct({StackScale}, {U(300)}, {PackWorld})

NextLong ==
    \/ Task
    \/ TaskBurst(LongWindow)
    \/ GetSamples
    \/ \E d \in TickSteps : Tick(d)

SpecLong == InitLong /\ [][NextLong]_vars

\* C11 (as claimed): a task() that reports new data leaves getSamples() at
\* the number of task() calls of the window it closes, however many these
\* are, and no other step changes what getSamples() returns.
C11_SamplesOfTheWindow ==
    [][IF Task /\ last'.ret
       THEN getSamples' = N(SampleCnt) + 1
       ELSE getSamples' = getSamples]_vars

(***************************************************************************)
(* Calibration and the windows after it, on steady readings                *)
(***************************************************************************)

\* Every channel steady at a low, a middle or the highest code, at a supply
\* of 4095, 3300 or 1200 mV: measured voltages from 2 mV to 4095 mV.
RoundWorlds ==
    { [pin |-> FlatPins(code), ref |-> r] :
        code \in {7, 2048, ADC_DIGITAL_SCALE_12B},
        r \in {LIPO_VREFINT, 1489, ADC_DIGITAL_SCALE_12B} }

\* The voltages the caller calibrates to: the least, that of a full cell,
\* and the greatest whose numerator fits uint32_t.
RoundVoltages == {U(1), U(4200), U(2^21 - 1)}

InitRound == Construct({StackScale}, {U(300)}, RoundWorlds)

NextRound ==
    \/ SetGateTime(1)
    \/ Task
    \/ \E v \in RoundVoltages : CalibrateBegin(0, v)
    \/ CalibrateSample
    \/ CalibrateEnd
    \/ Tick(1)

SpecRound == InitRound /\ [][NextRound]_vars

\* C20: when the latest calibrate(cell, V), with V below 2^21, has averaged
\* samples of a steady reading that measures m mV, 1 <= m <= 4095, a window
\* finalized afterwards at the same readings leaves VCell[cell] between
\* V - 2 and V.
C20_CalibrationRoundTrip ==
    [][(/\ Task /\ last'.ret
        /\ cal.samples # U32Zero
        /\ Small(cal.voltage) /\ N(cal.voltage) < 2^21
        /\ RawMv(adc.ref, adc.pin[cal.cell], 1) \in 1 .. ADC_DIGITAL_SCALE_12B)
         => /\ Small(VCell'[cal.cell])
            /\ N(VCell'[cal.cell]) \in N(cal.voltage) - 2 .. N(cal.voltage)]_vars

\* calibrate(0, 4200) at a measured 4095 mV has stored the scale factor
\* 2100, and the window after it has measured 4198 mV.
C20_Witness ==
    /\ last.op = "task" /\ last.ret = TRUE
    /\ cal.cell = 0 /\ cal.voltage = U(4200) /\ cal.samples # U32Zero
    /\ adc.ref = LIPO_VREFINT /\ adc.pin[0] = ADC_DIGITAL_SCALE_12B
    /\ CellScale[0] = U(2100) /\ VCell[0] = U(4198)

(***************************************************************************)
(* calibrate() and a clock that keeps advancing                            *)
(***************************************************************************)

\* The cells the caller calibrates: cell 0 of the pack, and cell 3, which is
\* open and reads 0.
LiveCells == {0, 3}

InitLive == Construct({StackScale}, StartTimes, {PackWorld})

\* The caller starts no calibration after MaxTicks ticks of the clock; a
\* calibration that has started sees the clock advance for as long as it
\* waits.
NextLive ==
    \/ \E ms \in GateTimes : SetGateTime(ms)
    \/ \E c \in LiveCells, v \in CalVoltages : ticks < MaxTicks /\ CalibrateBegin(c, v)
    \/ CalibrateSample
    \/ CalibrateEnd
    \/ \E d \in TickSteps : pc = "idle" /\ Tick(d)
    \/ \E d \in TickSteps : LoopTick(d)

\* The clock keeps advancing while calibrate() waits, and calibrate() goes
\* on once its loop is over.
SpecLive ==
    /\ InitLive /\ [][NextLive]_vars
    /\ WF_vars(\E d \in TickSteps : LoopTick(d))
    /\ WF_vars(CalibrateEnd)

\* The loop of calibrate() takes no sample once more than GateTime
\* milliseconds have passed since it started, leaves no earlier, and is
\* left in the end.
C15_LoopExits ==
    /\ [][CalibrateSample => sinceTick <= GateTime]_vars
    /\ [][CalibrateEnd => sinceTick > GateTime]_vars
    /\ (pc = "calibrate") ~> (pc # "calibrate")

\* C15 (as claimed): with a clock that keeps advancing, the loop of
\* calibrate() is left once more than GateTime milliseconds have passed, and
\* the call returns.
C15_CalibrateReturns ==
    /\ C15_LoopExits
    /\ (pc = "calibrate") ~> (pc = "idle")

====
